---- MODULE Spec2Model ----
(***************************************************************************)
(* Model of the fixed_point<T, I, F, W> class template (fixed_point.hpp).  *)
(*                                                                         *)
(* A fixed-point type is a record [T, I, F, W]; a fixed-point value is a   *)
(* record [type, value] holding the raw storage.  Every operator of the    *)
(* class is an operator here, computed with C++ integer semantics:         *)
(* operands narrower than int are promoted to int, the result is converted *)
(* to the raw type of the object that is constructed from it (modulo       *)
(* 2^width), >> on a negative value is an arithmetic shift and / truncates *)
(* toward zero.  The types under test have 8-bit raw storage, so their     *)
(* widened companions have 16-bit raw storage and every intermediate       *)
(* result fits the int the operands are promoted to.  What the compiler    *)
(* accepts (conversions, overloads, static_asserts) is a function of the   *)
(* types alone and is evaluated for raw types of up to 64 bits.            *)
(*                                                                         *)
(* Model of the hw_reg<T, R, W, A> class template (hw_reg.hpp), in the     *)
(* second half of the module.  The memory is a function from cells (the    *)
(* embedded field of a register object, or a constant address) to values;  *)
(* two threads execute one statement each on the register objects of the   *)
(* compile tests, one volatile access per step, and every access is        *)
(* appended to a trace.  A statement the compiler rejects is not executed. *)
(***************************************************************************)
EXTENDS Integers, Sequences, FiniteSets, TLC

VARIABLES T, pc, op, args, res, mem, threads, trace

vars == <<T, pc, op, args, res, mem, threads, trace>>

(* ----------------------------- bounds ---------------------------------- *)

\* raw values are sampled within Spread of the anchor values of a type
Spread == 1

\* the operand of a register statement is one of 1 .. MaxOperand
MaxOperand == 2

(* ----------------------- native integer types --------------------------- *)

RECURSIVE Pow2(_)
Pow2(k) == IF k <= 0 THEN 1 ELSE 2 * Pow2(k - 1)

Abs(x) == IF x < 0 THEN -x ELSE x

is_signed(t) == t \in {"int8_t", "int16_t", "int32_t", "int64_t"}

digits(t) ==
  CASE t = "int8_t"   -> 7
    [] t = "uint8_t"  -> 8
    [] t = "int16_t"  -> 15
    [] t = "uint16_t" -> 16
    [] t = "int32_t"  -> 31
    [] t = "uint32_t" -> 32
    [] t = "int64_t"  -> 63
    [] t = "uint64_t" -> 64
    [] OTHER          -> 0

Width(t) == (IF is_signed(t) THEN 1 ELSE 0) + digits(t)

is_integral(t) == digits(t) > 0

fixed_point_widened_raw_type(t) ==
  CASE t = "int8_t"   -> "int16_t"
    [] t = "uint8_t"  -> "uint16_t"
    [] t = "int16_t"  -> "int32_t"
    [] t = "uint16_t" -> "uint32_t"
    [] t = "int32_t"  -> "int64_t"
    [] t = "uint32_t" -> "uint64_t"
    [] OTHER          -> "void"

fixed_point_narrowed_raw_type(t) ==
  CASE t = "int16_t"  -> "int8_t"
    [] t = "uint16_t" -> "uint8_t"
    [] t = "int32_t"  -> "int16_t"
    [] t = "uint32_t" -> "uint16_t"
    [] t = "int64_t"  -> "int32_t"
    [] t = "uint64_t" -> "uint32_t"
    [] OTHER          -> "void"

RawMin(t) == IF is_signed(t) THEN -Pow2(Width(t) - 1) ELSE 0
RawMax(t) == IF is_signed(t) THEN Pow2(Width(t) - 1) - 1 ELSE Pow2(Width(t)) - 1

\* static_cast<t>(v): the value congruent to v modulo 2^width in t's range.
\* The model holds no value of more than 31 bits, so a conversion to a type
\* of 32 bits or more keeps the value.
WrapNarrow(t, v) ==
  LET m == v % Pow2(Width(t))
  IN  IF is_signed(t) /\ m >= Pow2(Width(t) - 1) THEN m - Pow2(Width(t)) ELSE m

static_cast(t, v) == IF Width(t) >= 32 THEN v ELSE WrapNarrow(t, v)

\* x << k on a promoted operand: multiplication by 2^k, also for negative x
ShiftLeft(x, k) == x * Pow2(k)

\* a faulty variant: >> as a logical shift of the magnitude (rounds toward zero)
ShiftRightTowardZero(x, k) ==
  IF x >= 0 THEN x \div Pow2(k) ELSE -((-x) \div Pow2(k))

\* x >> k on a promoted operand: arithmetic shift, ~((~x) >> k) for x < 0
ShiftRight(x, k) ==
  IF x >= 0 THEN x \div Pow2(k) ELSE -(((-x) - 1) \div Pow2(k)) - 1

\* x / y of C++: truncation toward zero
TruncDiv(x, y) ==
  IF (x >= 0) = (y > 0) THEN Abs(x) \div Abs(y) ELSE -(Abs(x) \div Abs(y))

(* --------------------------- fixed_point types -------------------------- *)

fixed_point(t, i, f, w) == [T |-> t, I |-> i, F |-> f, W |-> w]

FP(ft, raw) == [type |-> ft, value |-> raw]

widened_fixed_type(ft) ==
  fixed_point(fixed_point_widened_raw_type(ft.T), ft.I * 2, ft.F * 2, TRUE)

\* a faulty variant: the integral bit count is halved rounding up
narrowed_fixed_type_rounded(ft) ==
  fixed_point(fixed_point_narrowed_raw_type(ft.T), (ft.I + 1) \div 2,
              ft.F \div 2, FALSE)

narrowed_fixed_type(ft) ==
  fixed_point(fixed_point_narrowed_raw_type(ft.T), ft.I \div 2, ft.F \div 2, FALSE)

\* the three static_asserts of the class
ValidType(ft) ==
  /\ is_integral(ft.T)
  /\ Width(ft.T) = ft.I + ft.F
  /\ ft.I > 0

fractional_mask(ft) == Pow2(ft.F) - 1

(* ----------------------------- conversions ------------------------------ *)

\* a faulty variant: from() without the scaling shift
cast_integral_from_unscaled(ft, n) == static_cast(ft.T, n)

\* cast<integral>::from
cast_integral_from(ft, n) ==
  static_cast(ft.T, ShiftLeft(static_cast(ft.T, n), ft.F))

\* cast<integral>::to
cast_integral_to(ft, otherT, value) ==
  static_cast(otherT, ShiftRight(value, ft.F))

\* fixed_point (const otherT&), otherT integral
from_integral(ft, n) == FP(ft, cast_integral_from(ft, n))

\* explicit operator otherT, otherT integral
to_integral(v, otherT) == cast_integral_to(v.type, otherT, v.value)

\* a faulty variant: always cast first and shift in the destination width
convert_to_cast_first(v, dest) ==
  LET fs == v.type.F
  IN  IF dest.F >= fs
      THEN FP(dest, static_cast(dest.T,
                     ShiftLeft(static_cast(dest.T, v.value), dest.F - fs)))
      ELSE FP(dest, static_cast(dest.T,
                     ShiftRight(static_cast(dest.T, v.value), fs - dest.F)))

\* convert_to<destT, destI, destF, destW>: the three enable_if overloads
convert_to(v, dest) ==
  LET fs == v.type.F
  IN  IF dest.F = fs
      THEN FP(dest, static_cast(dest.T, v.value))
      ELSE IF dest.F > fs
      THEN FP(dest, static_cast(dest.T,
                     ShiftLeft(static_cast(dest.T, v.value), dest.F - fs)))
      ELSE FP(dest, static_cast(dest.T, ShiftRight(v.value, fs - dest.F)))

\* explicit fixed_point (const fixed_point<otherT, otherI, otherF, otherW>&)
explicit_ctor(dest, v) == FP(dest, convert_to(v, dest).value)

\* operator narrowed_fixed_type (implicit)
operator_narrowed(v) == convert_to(v, narrowed_fixed_type(v.type))

\* operator widened_fixed_type (implicit)
operator_widened(v) == convert_to(v, widened_fixed_type(v.type))

\* the implicit conversion of an argument v to a parameter or variable of
\* type ft: the identity, or one of the two implicit conversion operators
implicit_to(ft, v) ==
  IF v.type = ft THEN v
  ELSE IF narrowed_fixed_type(v.type) = ft THEN operator_narrowed(v)
  ELSE operator_widened(v)

(* ------------------------ addition, subtraction ------------------------- *)

\* a faulty variant: the sum of two widened values is formed in the narrow raw type
plus_same_narrow_raw(lhs, rhs) ==
  FP(lhs.type,
     static_cast(IF lhs.type.W THEN fixed_point_narrowed_raw_type(lhs.type.T)
                 ELSE lhs.type.T,
                 lhs.value + rhs.value))

\* fixed_point + fixed_point -> fixed_point
plus_same(lhs, rhs) ==
  FP(lhs.type, static_cast(lhs.type.T, lhs.value + rhs.value))

\* widened_fixed + (widened_fixed)fixed_point -> widened_fixed
plus_widened_fixed(lhs, rhs) == plus_same(lhs, explicit_ctor(lhs.type, rhs))

\* (widened_fixed)fixed + widened_fixed -> widened_fixed
plus_fixed_widened(lhs, rhs) == plus_widened_fixed(rhs, lhs)

\* overload resolution of lhs + rhs for operands of one type or of a type
\* and its widened companion
plus(lhs, rhs) ==
  IF lhs.type = rhs.type THEN plus_same(lhs, rhs)
  ELSE IF lhs.type.W /\ rhs.type = narrowed_fixed_type(lhs.type)
  THEN plus_widened_fixed(lhs, rhs)
  ELSE plus_fixed_widened(lhs, rhs)

\* fixed - fixed -> fixed
minus_same(lhs, rhs) ==
  FP(lhs.type, static_cast(lhs.type.T, lhs.value - rhs.value))

\* a faulty variant: the narrower operand is not promoted to the widened scale
minus_widened_fixed_unscaled(lhs, rhs) ==
  minus_same(lhs, FP(lhs.type, static_cast(lhs.type.T, rhs.value)))

\* widened_fixed - (widened_fixed)fixed -> widened_fixed
minus_widened_fixed(lhs, rhs) == minus_same(lhs, explicit_ctor(lhs.type, rhs))

\* (widened_fixed)fixed - widened_fixed -> widened_fixed
minus_fixed_widened(lhs, rhs) == minus_same(explicit_ctor(rhs.type, lhs), rhs)

\* overload resolution of lhs - rhs
minus(lhs, rhs) ==
  IF lhs.type = rhs.type THEN minus_same(lhs, rhs)
  ELSE IF lhs.type.W /\ rhs.type = narrowed_fixed_type(lhs.type)
  THEN minus_widened_fixed(lhs, rhs)
  ELSE minus_fixed_widened(lhs, rhs)

\* operator += (const fixed_point& rhs): *this = *this + rhs
plus_assign(x, r) == plus_same(x, implicit_to(x.type, r))

\* operator -= (const fixed_point& rhs): value -= rhs.value
minus_assign(x, r) ==
  FP(x.type, static_cast(x.type.T, x.value - implicit_to(x.type, r).value))

(* ----------------------------- multiplication --------------------------- *)

\* a faulty variant: the product is formed in the raw type, not in the widened one
times_fixed_fixed_unwidened(lhs, rhs) ==
  FP(widened_fixed_type(lhs.type),
     static_cast(lhs.type.T, lhs.value * rhs.value))

\* fixed * fixed -> widened_fixed
times_fixed_fixed(lhs, rhs) ==
  LET wt == widened_fixed_type(lhs.type)
  IN  FP(wt, static_cast(wt.T,
               static_cast(wt.T, lhs.value) * static_cast(wt.T, rhs.value)))

\* (fixed_point)widened_fixed * fixed -> widened_fixed
times_widened_fixed(lhs, rhs) ==
  times_fixed_fixed(explicit_ctor(narrowed_fixed_type(lhs.type), lhs), rhs)

\* a faulty variant: the two widened raw values are multiplied as they are
times_widened_widened_direct(lhs, rhs) ==
  FP(lhs.type, static_cast(lhs.type.T, lhs.value * rhs.value))

\* (fixed_point)widened_fixed * (fixed_point)widened_fixed -> widened_fixed
times_widened_widened(lhs, rhs) ==
  times_fixed_fixed(explicit_ctor(narrowed_fixed_type(lhs.type), lhs),
                    explicit_ctor(narrowed_fixed_type(rhs.type), rhs))

\* fixed * otherT -> widened_fixed, otherT a fixed_point type other than
\* the type of lhs: lhs * fixed_point (rhs)
times_fixed_other(lhs, rhs) ==
  times_fixed_fixed(lhs, explicit_ctor(lhs.type, rhs))

\* overload resolution of lhs * rhs for fixed-point operands
times(lhs, rhs) ==
  IF lhs.type = rhs.type
  THEN IF lhs.type.W THEN times_widened_widened(lhs, rhs)
       ELSE times_fixed_fixed(lhs, rhs)
  ELSE IF lhs.type.W /\ rhs.type = narrowed_fixed_type(lhs.type)
  THEN times_widened_fixed(lhs, rhs)
  ELSE times_fixed_other(lhs, rhs)

\* fixed * integral -> widened_fixed
times_fixed_int(lhs, n) ==
  LET wt == widened_fixed_type(lhs.type)
  IN  FP(wt, static_cast(wt.T,
               static_cast(wt.T, lhs.value) * static_cast(wt.T, n)))

\* integral * fixed -> widened_fixed
times_int_fixed(n, rhs) == times_fixed_int(rhs, n)

\* operator *= (const fixed_point& rhs): *this = (fixed_point)(*this * rhs)
times_assign(x, r) ==
  explicit_ctor(x.type, times_fixed_fixed(x, implicit_to(x.type, r)))

\* operator *= (const otherT& rhs), otherT integral: *this = *this * rhs
times_assign_int(x, n) == implicit_to(x.type, times_fixed_int(x, n))

(* -------------------------------- division ------------------------------ *)

\* a faulty variant: the dividend is not pre-scaled
divide_fixed_fixed_unscaled(lhs, rhs) ==
  FP(lhs.type, static_cast(lhs.type.T, TruncDiv(lhs.value, rhs.value)))

\* (widened_fixed)fixed / fixed -> fixed
divide_fixed_fixed(lhs, rhs) ==
  LET wt == fixed_point_widened_raw_type(lhs.type.T)
  IN  FP(lhs.type,
         static_cast(lhs.type.T,
           TruncDiv(ShiftLeft(static_cast(wt, lhs.value), lhs.type.F),
                    rhs.value)))

\* a faulty variant: the dividend is narrowed before the division
divide_widened_fixed_narrowed(lhs, rhs) ==
  LET nt == narrowed_fixed_type(lhs.type)
  IN  FP(nt, static_cast(nt.T,
               TruncDiv(convert_to(lhs, nt).value, rhs.value)))

\* widened / fixed -> fixed
divide_widened_fixed(lhs, rhs) ==
  LET nt == narrowed_fixed_type(lhs.type)
  IN  FP(nt, static_cast(nt.T, TruncDiv(lhs.value, rhs.value)))

\* fixed / (fixed)widened -> fixed
divide_fixed_widened(lhs, rhs) ==
  divide_fixed_fixed(lhs, explicit_ctor(narrowed_fixed_type(rhs.type), rhs))

\* widened / (fixed)widened -> fixed
divide_widened_widened(lhs, rhs) ==
  divide_widened_fixed(lhs, explicit_ctor(narrowed_fixed_type(rhs.type), rhs))

\* overload resolution of lhs / rhs for fixed-point operands
divide(lhs, rhs) ==
  IF lhs.type = rhs.type
  THEN IF lhs.type.W THEN divide_widened_widened(lhs, rhs)
       ELSE divide_fixed_fixed(lhs, rhs)
  ELSE IF lhs.type.W /\ rhs.type = narrowed_fixed_type(lhs.type)
  THEN divide_widened_fixed(lhs, rhs)
  ELSE divide_fixed_widened(lhs, rhs)

\* operator /= (const fixed_point& rhs): *this = *this / rhs
divide_assign(x, r) == divide_fixed_fixed(x, implicit_to(x.type, r))

(* --------------------------- masks, instantiation ----------------------- *)

\* x & y on promoted operands (two's complement, any sign)
RECURSIVE BitAnd(_, _)
BitAnd(x, y) ==
  IF x = 0 \/ y = 0 THEN 0
  ELSE IF x = -1 THEN y
  ELSE IF y = -1 THEN x
  ELSE (x % 2) * (y % 2) + 2 * BitAnd(x \div 2, y \div 2)

\* ~x on a promoted operand
BitNot(x) == -x - 1

\* a faulty variant: the integral mask keeps the highest fractional bit
integral_mask_off_by_one(ft) ==
  static_cast(ft.T, BitNot(fractional_mask(ft) \div 2))

\* integral_mask = ~fractional_mask, stored in the raw type
integral_mask(ft) == static_cast(ft.T, BitNot(fractional_mask(ft)))

\* the initializer of fractional_mask is a constant expression: for a raw
\* type of the width of int or more, (raw_type (1) << F) - 1 overflows when
\* F is the position of the sign bit.  The initializer of a static member
\* of a class template is instantiated where the member is used, not with
\* the class.
masks_are_constant(ft) ==
  ~ (is_signed(ft.T) /\ Width(ft.T) >= 32 /\ ft.F = Width(ft.T) - 1)

\* the class fixed_point<T, I, F, W> can be instantiated: the empty partial
\* specialization for void, or the primary template with its static_asserts
instantiable(ft) ==
  IF ft.T = "void" THEN TRUE
  ELSE ValidType(ft)

\* fractional_mask and integral_mask of an instantiated type can be used
masks_usable(ft) ==
  ft.T # "void" /\ instantiable(ft) /\ masks_are_constant(ft)

(* --------------------- conversions between fixed types ------------------ *)

\* a faulty variant: the converting constructor from another fixed_point
\* type is not explicit when it promotes (otherI <= I && otherF <= F)
implicit_conversion_promoting(A, B) ==
  IF A = B THEN "copy"
  ELSE IF B = narrowed_fixed_type(A) THEN "operator narrowed_fixed_type"
  ELSE IF B = widened_fixed_type(A) THEN "operator widened_fixed_type"
  ELSE IF A.I <= B.I /\ A.F <= B.F THEN "fixed_point (const fixed_point&)"
  ELSE "ill-formed"

\* a faulty variant: the conversion to the narrowed type is explicit
implicit_conversion_no_narrowing(A, B) ==
  IF A = B THEN "copy"
  ELSE IF B = widened_fixed_type(A) THEN "operator widened_fixed_type"
  ELSE "ill-formed"

\* copy-initialization of a B from an A (B b = a, return a, an argument):
\* the function overload resolution selects among the non-explicit
\* constructors of B and the non-explicit conversion functions of A.  The
\* two conversion operators are not templates and win over the constructor
\* template from otherT, whose cast<otherT> has no definition for a
\* fixed_point otherT.
implicit_conversion(A, B) ==
  IF A = B THEN "copy"
  ELSE IF B = narrowed_fixed_type(A) THEN "operator narrowed_fixed_type"
  ELSE IF B = widened_fixed_type(A) THEN "operator widened_fixed_type"
  ELSE "ill-formed"

\* direct-initialization of a B from an A ((B)a, B (a)): the explicit
\* constructor template from another fixed_point type is the most
\* specialized exact match; one of the three convert_to overloads is enabled
explicit_conversion(A, B) ==
  IF A = B THEN "copy"
  ELSE "explicit fixed_point (const fixed_point<otherT, otherI, otherF, otherW>&)"

(* ------------------------- overloads of operator * ---------------------- *)

\* the overload of operator * selected for operands of types L and R, of
\* one type or of a type and its widened companion
times_overload(L, R) ==
  IF L = R
  THEN IF L.W THEN "widened * widened" ELSE "fixed * fixed"
  ELSE IF L.W /\ R = narrowed_fixed_type(L) THEN "widened * fixed"
  ELSE "fixed * other"

\* a faulty variant: the multiplication has no static_assert
fixed_times_fixed_accepted_unchecked(L) == TRUE

\* fixed * fixed -> widened_fixed is well-formed: its static_assert holds
fixed_times_fixed_accepted(L) ==
  fixed_point_widened_raw_type(L.T) # "void"

\* a faulty variant: there is no overload for two widened operands
times_accepted_no_widened_widened(L, R) ==
  CASE times_overload(L, R) = "fixed * fixed" -> fixed_times_fixed_accepted(L)
    [] times_overload(L, R) = "widened * widened" -> FALSE
    [] times_overload(L, R) = "widened * fixed" ->
         fixed_times_fixed_accepted(narrowed_fixed_type(L))
    [] OTHER -> fixed_times_fixed_accepted(L)

\* lhs * rhs is well-formed: the body of the selected overload compiles
times_accepted(L, R) ==
  CASE times_overload(L, R) = "fixed * fixed" -> fixed_times_fixed_accepted(L)
    [] times_overload(L, R) = "widened * widened" ->
         /\ ValidType(narrowed_fixed_type(L))
         /\ fixed_times_fixed_accepted(narrowed_fixed_type(L))
    [] times_overload(L, R) = "widened * fixed" ->
         fixed_times_fixed_accepted(narrowed_fixed_type(L))
    [] OTHER -> fixed_times_fixed_accepted(L)

\* x *= r for r of the type of x: the body uses *this * rhs
times_assign_accepted(L) == times_accepted(L, L)

\* lhs + rhs for operands of one type: the friend is not a template and has
\* no static_assert
plus_accepted(L, R) == L = R

(* --------------------- relational and unary operators ------------------- *)

operator_eq(lhs, rhs) == lhs.value = rhs.value

operator_ne(lhs, rhs) == lhs.value # rhs.value

\* a faulty variant: < compares the magnitudes of the raw values
operator_lt_magnitude(lhs, rhs) == Abs(lhs.value) < Abs(rhs.value)

operator_lt(lhs, rhs) == lhs.value < rhs.value

operator_le(lhs, rhs) == lhs.value <= rhs.value

operator_gt(lhs, rhs) == lhs.value > rhs.value

operator_ge(lhs, rhs) == lhs.value >= rhs.value

\* a faulty variant: the negation saturates at the maximum of the raw type
unary_minus_saturating(v) ==
  FP(v.type, IF -v.value > RawMax(v.type.T) THEN RawMax(v.type.T)
             ELSE static_cast(v.type.T, -v.value))

\* unary minus: fixed_point (-value, FIXED_POINT_RAW)
unary_minus(v) == FP(v.type, static_cast(v.type.T, -v.value))

\* a faulty variant: ++ adds one unit of the raw value
pre_increment_raw(x) ==
  LET y == FP(x.type, static_cast(x.type.T, x.value + 1))
  IN  [object |-> y, result |-> y]

\* pre-increment: *this += fixed_point (1); return *this
pre_increment(x) ==
  LET y == plus_assign(x, from_integral(x.type, 1))
  IN  [object |-> y, result |-> y]

\* post-increment: prev = *this; *this += fixed_point (1); return prev
post_increment(x) ==
  [object |-> plus_assign(x, from_integral(x.type, 1)), result |-> x]

\* pre-decrement: *this -= fixed_point (1); return *this
pre_decrement(x) ==
  LET y == minus_assign(x, from_integral(x.type, 1))
  IN  [object |-> y, result |-> y]

\* post-decrement: prev = *this; *this -= fixed_point (1); return prev
post_decrement(x) ==
  [object |-> minus_assign(x, from_integral(x.type, 1)), result |-> x]

(* ------------------------------ std functions --------------------------- *)

\* std::abs: val < 0 ? -val : val, the 0 converted to fixed_point
abs(val) ==
  IF operator_lt(val, from_integral(val.type, 0)) THEN unary_minus(val) ELSE val

\* std::fabs: val < 0 ? -val : val
fabs(val) ==
  IF operator_lt(val, from_integral(val.type, 0)) THEN unary_minus(val) ELSE val

\* std::trunc: fixed_point (a.raw () & a.integral_mask, FIXED_POINT_RAW)
trunc(a) ==
  FP(a.type, static_cast(a.type.T, BitAnd(a.value, integral_mask(a.type))))

(* ------------------------------ the inputs ------------------------------ *)

\* std::signbit: x.raw () < 0 ? 1 : 0
signbit(x) == IF x.value < 0 THEN 1 ELSE 0

RawTypes8 == {"int8_t", "uint8_t"}

\* every valid non-widened fixed_point type with 8-bit raw storage
Types == {fixed_point(t, i, Width(t) - i, FALSE) : t \in RawTypes8, i \in 1..7}
           \cup {fixed_point(t, Width(t), 0, FALSE) : t \in RawTypes8}

\* destination types of a conversion: 8-bit and 16-bit raw storage
DestTypes ==
  Types \cup {fixed_point(t, i, Width(t) - i, FALSE) :
                t \in {"int16_t", "uint16_t"}, i \in {1, 7, 8, 9, 16}}

Near(S, lo, hi) ==
  UNION {{v \in (a - Spread)..(a + Spread) : lo <= v /\ v <= hi} : a \in S}

\* raw values of a type: its extremes, zero, +-1.0, +-1.5, 2.0 and neighbours
Anchors(ft) ==
  LET one == Pow2(ft.F)
  IN  {RawMin(ft.T), RawMax(ft.T), 0, one, -one, one + (one \div 2),
       -(one + (one \div 2)), 2 * one}

Samples(ft) == Near(Anchors(ft), RawMin(ft.T), RawMax(ft.T))

Values(ft) == {FP(ft, v) : v \in Samples(ft)}

\* a few values of a type: what an undefined operation may leave behind
FewValues(ft) ==
  {FP(ft, v) : v \in {RawMin(ft.T), RawMax(ft.T), 1, Pow2(ft.F) - 1}}

\* the third and fourth operand of an expression: both extremes, and a
\* product with all fractional bits set
OperandPairs(ft) ==
  {<<FP(ft, RawMin(ft.T)), FP(ft, RawMin(ft.T))>>,
   <<FP(ft, RawMax(ft.T)), FP(ft, RawMin(ft.T))>>,
   <<FP(ft, 1), FP(ft, Pow2(ft.F) - 1)>>}

\* the operands of a second product: those pairs, and the neighbours of 1.0
\* (of the raw value 2 where 1.0 is not a value of the type)
ProductPairs(ft) ==
  LET x == IF Pow2(ft.F) < RawMax(ft.T) THEN Pow2(ft.F) ELSE 2
  IN  OperandPairs(ft) \cup {<<FP(ft, x + 1), FP(ft, x - 1)>>}

\* integer operands of a multiplication
IntOperands == (-(Spread + 1))..(Spread + 2)

IntTypes == {"int8_t", "uint8_t", "int16_t", "int32_t"}

\* integers of type otherT around the limits of the I integral bits
Integers_(ft, otherT) ==
  LET lo == IF Width(otherT) >= 32 THEN -Pow2(10) ELSE RawMin(otherT)
      hi == IF Width(otherT) >= 32 THEN Pow2(10) ELSE RawMax(otherT)
  IN  Near({0, lo, hi, Pow2(ft.I - 1) - 1, Pow2(ft.I - 1), -Pow2(ft.I - 1),
            -Pow2(ft.I - 1) - 1, Pow2(ft.I) - 1, Pow2(ft.I)}, lo, hi)

\* the raw type of the other signedness and the same width
OtherSign(t) ==
  CASE t = "int8_t"   -> "uint8_t"
    [] t = "uint8_t"  -> "int8_t"
    [] t = "int16_t"  -> "uint16_t"
    [] t = "uint16_t" -> "int16_t"
    [] t = "int32_t"  -> "uint32_t"
    [] t = "uint32_t" -> "int32_t"
    [] t = "int64_t"  -> "uint64_t"
    [] t = "uint64_t" -> "int64_t"
    [] OTHER          -> "void"

\* the types of the I : F proportion of ft on raw storage of 8, 16, 32 and
\* 64 bits, widened or not (4.4, 8.8, 16.16, 32.32)
TypeFamily(ft) ==
  LET w1 == widened_fixed_type(ft)
      w2 == widened_fixed_type(w1)
      w3 == widened_fixed_type(w2)
  IN  {[x EXCEPT !.W = b] : x \in {ft, w1, w2, w3}, b \in BOOLEAN}

\* destination types of a conversion from A: A and its companions, the
\* types of the companions' shape without their flag, neighbouring splits,
\* the other signedness, a wider and a narrower type of another split
Targets(A) ==
  LET wr == fixed_point_widened_raw_type(A.T)
      nr == fixed_point_narrowed_raw_type(A.T)
  IN  {B \in {A, [A EXCEPT !.W = ~ A.W],
              widened_fixed_type(A),
              [widened_fixed_type(A) EXCEPT !.W = FALSE],
              narrowed_fixed_type(A),
              [narrowed_fixed_type(A) EXCEPT !.W = TRUE],
              fixed_point(A.T, A.I + 1, A.F - 1, FALSE),
              fixed_point(A.T, A.I - 1, A.F + 1, FALSE),
              fixed_point(OtherSign(A.T), A.I, A.F, A.W),
              fixed_point(wr, A.I + 1, Width(wr) - A.I - 1, FALSE),
              fixed_point(nr, (A.I \div 2) + 1, Width(nr) - (A.I \div 2) - 1,
                          FALSE)} :
         B.T # "void" /\ B.F >= 0 /\ instantiable(B)}

\* template arguments of an instantiation: raw types, integral and
\* fractional bit counts around those of ft
RawTypeArguments(ft) ==
  {ft.T, fixed_point_widened_raw_type(ft.T), "int32_t", "float", "void"}

BitCountArguments(ft, t) ==
  {<<i, f>> : i \in {0, 1, ft.I, ft.I + 1, 2 * ft.I},
              f \in {ft.F, ft.F + 1, 2 * ft.F,
                     IF is_integral(t) THEN Width(t) - 1 ELSE 0}}

\* non-widened types on raw storage of 16, 32 and 64 bits: the integral bit
\* counts 1, I, I + 8 and those of fxpt_9_23, fxpt_16_16, fxpt_31_33 and
\* fxpt_32_32, and ft itself
Splits(ft) ==
  {ft} \cup
  UNION {{fixed_point(t, i, Width(t) - i, FALSE) :
            i \in {k \in {1, ft.I, ft.I + 8, 9, 16, 31, 32} : k <= Width(t)}} :
         t \in {"int16_t", "uint16_t", "int32_t", "uint32_t", "int64_t",
                "uint64_t"}}

(* ----------------------------- the state machine ------------------------ *)

NoArgs == <<>>

Init ==
  /\ T \in Types
  /\ pc = "start"
  /\ op = "none"
  /\ args = NoArgs
  /\ res = NoArgs
  /\ mem = NoArgs
  /\ threads = NoArgs
  /\ trace = NoArgs

Done(name, a, r) ==
  /\ pc' = "done"
  /\ op' = name
  /\ args' = a
  /\ res' = r
  /\ UNCHANGED <<T, mem, threads, trace>>

\* test_00_1, test_17_4: r = a * b
Mul ==
  /\ pc = "start"
  /\ \E a \in Values(T), b \in Values(T) :
    Done("mul", [a |-> a, b |-> b],
         [product |-> times(a, b),
          narrowed |-> implicit_to(T, times(a, b))])

\* test_28, test_29, test_18: a * n, n * a, a *= n
MulInt ==
  /\ pc = "start"
  /\ \E a \in Values(T), n \in IntOperands :
    Done("mul_int", [a |-> a, n |-> n],
         [fixed_int |-> implicit_to(T, times_fixed_int(a, n)),
          int_fixed |-> implicit_to(T, times_int_fixed(n, a)),
          assign |-> times_assign_int(a, n)])

\* test_49: a / b
Div ==
  /\ pc = "start"
  /\ \E a \in Values(T), b \in Values(T) :
    /\ b.value # 0
    /\ Done("div", [a |-> a, b |-> b], [quotient |-> divide(a, b)])

\* test_50, test_52: w / d, d of type T or of the widened type.  A divisor
\* whose narrowed raw value is zero makes it a division by zero, which is
\* undefined: any value of the result type may come out.
DivWidened ==
  /\ pc = "start"
  /\ \E w \in Values(widened_fixed_type(T)),
     d \in Values(T) \cup Values(widened_fixed_type(T)) :
    /\ d.value # 0
    /\ IF implicit_to(T, d).value # 0
       THEN Done("div_widened", [w |-> w, d |-> d],
                 [quotient |-> divide(w, d), defined |-> TRUE])
       ELSE \E q \in FewValues(T) :
              Done("div_widened", [w |-> w, d |-> d],
                   [quotient |-> q, defined |-> FALSE])

\* test_03: return a * b + c * d
Mac ==
  /\ pc = "start"
  /\ \E a \in Values(T), b \in Values(T), cd \in OperandPairs(T) :
       LET ab  == times(a, b)
           cxd == times(cd[1], cd[2])
           sum == plus(ab, cxd)
       IN  Done("mac", [a |-> a, b |-> b, c |-> cd[1], d |-> cd[2]],
                [ab |-> ab, cd |-> cxd, sum |-> sum,
                 narrowed |-> implicit_to(T, sum)])

\* test_39, test_40: w + n, n + w, w - n, n - w
AddMixed ==
  /\ pc = "start"
  /\ \E w \in Values(widened_fixed_type(T)), n \in Values(T) :
    Done("add_mixed", [w |-> w, n |-> n],
         [w_plus_n |-> plus(w, n),
          n_plus_w |-> plus(n, w),
          w_minus_n |-> minus(w, n),
          n_minus_w |-> minus(n, w)])

\* test_00, test_04, test_17: (dest)v for v of type T, of its widened
\* companion or of the non-widened type of the companion's shape
Convert ==
  /\ pc = "start"
  /\ \E src \in {T, widened_fixed_type(T),
              [widened_fixed_type(T) EXCEPT !.W = FALSE]},
     dest \in DestTypes :
    \E v \in Values(src) :
      Done("convert", [v |-> v, dest |-> dest],
           [converted |-> explicit_ctor(dest, v)])

\* test_14, test_01: otherT n -> T -> otherT
IntRoundTrip ==
  /\ pc = "start"
  /\ \E otherT \in IntTypes :
    \E n \in Integers_(T, otherT) :
      Done("int_round_trip", [n |-> n, otherT |-> otherT],
           [fixed |-> from_integral(T, n),
            back |-> to_integral(from_integral(T, n), otherT)])

\* test_01, test_02: (otherT)a
ToInt ==
  /\ pc = "start"
  /\ \E a \in Values(T), otherT \in {"int8_t", "int16_t", "int32_t"} :
    Done("to_int", [a |-> a, otherT |-> otherT],
         [int |-> to_integral(a, otherT)])

\* test_38, test_42, test_37, test_51: x += r, x -= r, x *= r, x /= r for r
\* of type T or of its widened companion, next to T (x op r)
Compound ==
  /\ pc = "start"
  /\ \E x \in Values(T),
     r \in Values(T) \cup Values(widened_fixed_type(T)),
     o \in {"+=", "-=", "*=", "/="} :
    /\ o = "/=" => implicit_to(T, r).value # 0
    /\ Done("compound", [x |-> x, r |-> r, o |-> o],
            CASE o = "+=" -> [assigned |-> plus_assign(x, r),
                              binary |-> implicit_to(T, plus(x, r))]
              [] o = "-=" -> [assigned |-> minus_assign(x, r),
                              binary |-> implicit_to(T, minus(x, r))]
              [] o = "*=" -> [assigned |-> times_assign(x, r),
                              binary |-> implicit_to(T, times(x, r))]
              [] o = "/=" -> [assigned |-> divide_assign(x, r),
                              binary |-> implicit_to(T, divide(x, r))])

\* test_16, test_24, test_00_1, test_58: B b = a and (B)a for fixed_point
\* types A and B
ConvertKind ==
  /\ pc = "start"
  /\ \E A \in TypeFamily(T) :
    \E B \in Targets(A) :
      Done("convert_kind", [A |-> A, B |-> B],
           [implicit |-> implicit_conversion(A, B),
            explicit |-> explicit_conversion(A, B)])

\* test_36: (a * b) * (c * d), both operands of the widened type
MulWidened ==
  /\ pc = "start"
  /\ \E x \in Values(widened_fixed_type(T)),
     y \in Values(widened_fixed_type(T)) :
    Done("mul_widened", [x |-> x, y |-> y],
         [overload |-> times_overload(x.type, y.type),
          accepted |-> times_accepted(x.type, y.type),
          product |-> times(x, y)])

\* test_25, test_82, test_16: a declaration, a + b, a * b and a *= b for
\* a and b of a type A
MulAccepted ==
  /\ pc = "start"
  /\ \E A \in TypeFamily(T) :
    Done("mul_accepted", [A |-> A],
         [declare |-> instantiable(A),
          add |-> plus_accepted(A, A),
          mul |-> times_accepted(A, A),
          mul_assign |-> times_assign_accepted(A)])

\* the instantiation of fixed_point<t, i, f> and the use of its two masks
\* (the masks are evaluated for raw types of up to 16 bits)
Instantiate ==
  /\ pc = "start"
  /\ \E t \in RawTypeArguments(T) :
    \E a \in BitCountArguments(T, t) :
      LET ft == fixed_point(t, a[1], a[2], FALSE)
          ok == instantiable(ft)
          m  == masks_usable(ft) /\ Width(t) <= 16
      IN  Done("instantiate", [type |-> ft],
               [accepted |-> ok,
                masks_usable |-> masks_usable(ft),
                masks |-> m,
                fractional_mask |-> IF m THEN fractional_mask(ft) ELSE 0,
                integral_mask |-> IF m THEN integral_mask(ft) ELSE 0])

\* test_58, test_00_2: B b = (B)v; T back = (T)b, implicit where it can be
RoundTrip ==
  /\ pc = "start"
  /\ \E v \in Values(T), B \in DestTypes \cup {widened_fixed_type(T)} :
       LET there == IF implicit_conversion(T, B) # "ill-formed"
                    THEN implicit_to(B, v) ELSE explicit_ctor(B, v)
           back  == IF implicit_conversion(B, T) # "ill-formed"
                    THEN implicit_to(T, there) ELSE explicit_ctor(T, there)
       IN  Done("round_trip", [v |-> v, B |-> B],
                [there |-> there, back |-> back])

\* test_05, test_06: std::abs (a), std::fabs (a)
AbsFabs ==
  /\ pc = "start"
  /\ \E a \in Values(T) \cup Values(widened_fixed_type(T)) :
    Done("abs", [a |-> a],
         [abs |-> abs(a), fabs |-> fabs(a),
          signbit |-> signbit(abs(a)), fsignbit |-> signbit(fabs(a))])

\* std::trunc (x), std::trunc (std::trunc (x))
Trunc ==
  /\ pc = "start"
  /\ \E x \in Values(T) \cup Values(widened_fixed_type(T)) :
    Done("trunc", [x |-> x],
         [trunc |-> trunc(x), twice |-> trunc(trunc(x))])

\* test_71 .. test_77: a == b, a != b, a < b, a <= b, a > b, a >= b
Compare ==
  /\ pc = "start"
  /\ \E a \in Values(T), b \in Values(T) :
    Done("compare", [a |-> a, b |-> b],
         [eq |-> operator_eq(a, b), ne |-> operator_ne(a, b),
          lt |-> operator_lt(a, b), le |-> operator_le(a, b),
          gt |-> operator_gt(a, b), ge |-> operator_ge(a, b)])

\* test_26, test_26_1: ++x, x++, --x, x--, and --(++x)
IncDec ==
  /\ pc = "start"
  /\ \E x \in Values(T) :
    Done("inc_dec", [x |-> x],
         [pre_inc |-> pre_increment(x),
          post_inc |-> post_increment(x),
          pre_dec |-> pre_decrement(x),
          post_dec |-> post_decrement(x),
          inc_dec |-> pre_decrement(pre_increment(x).object)])

\* test_36, test_35: (a * b) * (c * d) and a * b * c * d
MulMul ==
  /\ pc = "start"
  /\ \E a \in Values(T), b \in FewValues(T), cd \in ProductPairs(T) :
    LET ab == times(a, b)
        pq == times(cd[1], cd[2])
    IN  Done("mul_mul", [a |-> a, b |-> b, c |-> cd[1], d |-> cd[2]],
             [accepted |-> times_accepted(ab.type, pq.type),
              product |-> times(ab, pq),
              chain |-> times(times(ab, cd[1]), cd[2])])

\* test_50 with d = b: (a * b) / b
MulDiv ==
  /\ pc = "start"
  /\ \E a \in Values(T), b \in Values(T) :
    /\ b.value # 0
    /\ LET q == divide(times(a, b), b)
       IN  Done("mul_div", [a |-> a, b |-> b],
                [quotient |-> q, equal |-> operator_eq(q, a)])

\* the narrowed companion of a type A and its instantiation
NarrowedCompanion ==
  /\ pc = "start"
  /\ \E A \in Splits(T) :
    Done("narrowed", [A |-> A],
         [companion |-> narrowed_fixed_type(A),
          accepted |-> instantiable(narrowed_fixed_type(A))])

Next ==
  \/ MulMul
  \/ MulDiv
  \/ NarrowedCompanion
  \/ Mul
  \/ MulInt
  \/ Div
  \/ DivWidened
  \/ Mac
  \/ AddMixed
  \/ Convert
  \/ IntRoundTrip
  \/ ToInt
  \/ Compound
  \/ ConvertKind
  \/ MulWidened
  \/ MulAccepted
  \/ Instantiate
  \/ RoundTrip
  \/ AbsFabs
  \/ Trunc
  \/ Compare
  \/ IncDec

Spec == Init /\ [][Next]_vars

TypeOK ==
  /\ T \in Types
  /\ ValidType(T)
  /\ pc \in {"start", "done"}

(* ================================ hw_reg ================================ *)

(* ---------------------------- address strategies ------------------------ *)

\* no address: the register is a member of a register block struct
Void == [kind |-> "void", value |-> "none"]

\* const_addr<ADDR>
const_addr(ADDR) == [kind |-> "const_addr", value |-> ADDR]

\* std::integral_constant<uintptr_t, ADDR>
integral_constant(ADDR) == [kind |-> "integral_constant", value |-> ADDR]

\* a faulty variant: every address type is supported
hw_reg_var_is_valid_any(A) == TRUE

\* hw_reg_var<T, A>::is_valid: false in the primary template, true in the
\* specializations for void and const_addr<A>
hw_reg_var_is_valid(A) == A.kind \in {"void", "const_addr"}

\* hw_reg_var<T, A> has a member read: the two specializations
hw_reg_var_has_read(A) == A.kind \in {"void", "const_addr"}

\* hw_reg_var<T, A>::write can be instantiated: the specialization for void;
\* the one for const_addr<A> returns a value from a function returning void
hw_reg_var_write_well_formed(A) == A.kind = "void"

(* ------------------------------- hw_reg types --------------------------- *)

hw_reg(t, r, w, a) == [T |-> t, R |-> r, W |-> w, A |-> a]

hw_reg_w(t, a) == hw_reg(t, FALSE, TRUE, a)

hw_reg_r(t, a) == hw_reg(t, TRUE, FALSE, a)

hw_reg_rw(t, a) == hw_reg(t, TRUE, TRUE, a)

\* the static_assert of the class
hw_reg_instantiable(type) == hw_reg_var_is_valid(type.A)

(* ------------------------------ register objects ------------------------ *)

\* the register objects of the compile tests: the members of struct regs
\* behind the reference r, the local reg of test_19, the declaration that
\* test_20 names, and the constants g_reg_0 and g_reg_1
Objects ==
  ( "r.rw_reg"    :> [type |-> hw_reg_rw("int32_t", Void), const |-> FALSE] )
  @@ ( "r.r_reg"  :> [type |-> hw_reg_r("int32_t", Void), const |-> FALSE] )
  @@ ( "r.w_reg"  :> [type |-> hw_reg_w("int32_t", Void), const |-> FALSE] )
  @@ ( "test_19.reg" :>
         [type |-> hw_reg_rw("int32_t", const_addr("0xA0001240")),
          const |-> FALSE] )
  @@ ( "test_20.reg" :>
         [type |-> hw_reg_rw("int32_t", integral_constant("0xA0001240")),
          const |-> FALSE] )
  @@ ( "g_reg_0"  :>
         [type |-> hw_reg_rw("int32_t", const_addr("0xA0001240")),
          const |-> TRUE] )
  @@ ( "g_reg_1"  :>
         [type |-> hw_reg_rw("int32_t", const_addr("0xA0001244")),
          const |-> TRUE] )

Names == DOMAIN Objects

\* hw_reg_var::address_of: the embedded __var of the object, the constant
\* address, or nullptr in the primary template
address_of(n) ==
  LET A == Objects[n].type.A
  IN  IF A.kind = "void" THEN n
      ELSE IF A.kind = "const_addr" THEN A.value
      ELSE "nullptr"

Cells == {address_of(n) : n \in Names} \ {"nullptr"}

\* hw_reg_var::read: return __var, or *(reinterpret_cast<ptr_type> (A))
hw_reg_var_read(m, n) == m[address_of(n)]

\* a faulty variant: the value is not stored
hw_reg_var_write_dropped(m, n, val) == m

\* hw_reg_var::write: __var = val
hw_reg_var_write(m, n, val) == [m EXCEPT ![address_of(n)] = val]

(* ---------------------------- what is accepted -------------------------- *)

\* read (can_read) finds the overload read (std::true_type)
read_accepted(o) ==
  /\ hw_reg_instantiable(o.type)
  /\ o.type.R
  /\ hw_reg_var_has_read(o.type.A)

\* write (val, can_write) finds the overload write (const T&, std::true_type);
\* write is not a const member function
write_accepted(o) ==
  /\ hw_reg_instantiable(o.type)
  /\ o.type.W
  /\ ~ o.const
  /\ hw_reg_var_write_well_formed(o.type.A)

\* write (read (can_read) op val, can_write)
compound_accepted(o) == read_accepted(o) /\ write_accepted(o)

\* a statement on a register object
Statement(k, n, o, v) == [kind |-> k, reg |-> n, op |-> o, val |-> v]

NoStatement == Statement("none", "none", "none", 0)

CompoundOperators ==
  {"+=", "-=", "*=", "/=", "%=", "^=", "&=", "|=", ">>=", "<<="}

\* the statement compiles
accepted(s) ==
  LET o == Objects[s.reg]
  IN  CASE s.kind \in {"read", "convert"} -> read_accepted(o)
        [] s.kind \in {"write", "assign"} -> write_accepted(o)
        [] OTHER                           -> compound_accepted(o)

(* ------------------------- the compound operators ----------------------- *)

BitOr(x, y) == BitNot(BitAnd(BitNot(x), BitNot(y)))

BitXor(x, y) == BitOr(x, y) - BitAnd(x, y)

\* a faulty variant: the operand alone is written
compound_operand(o, x, val) == val

\* read (can_read) op val, converted to const T&
compound(o, x, val) ==
  static_cast("int32_t",
    CASE o = "+="  -> x + val
      [] o = "-="  -> x - val
      [] o = "*="  -> x * val
      [] o = "/="  -> TruncDiv(x, val)
      [] o = "%="  -> x - val * TruncDiv(x, val)
      [] o = "^="  -> BitXor(x, val)
      [] o = "&="  -> BitAnd(x, val)
      [] o = "|="  -> BitOr(x, val)
      [] o = ">>=" -> ShiftRight(x, val)
      [] o = "<<=" -> ShiftLeft(x, val))

(* ------------------------------- the inputs ----------------------------- *)

Threads == {1, 2}

Operands == 1..MaxOperand

\* r.read (), T x = r, r.write (v), r = v, r op= v and T x = (r op= v) on
\* every register object
Statements ==
  {Statement(k, n, "none", 0) : k \in {"read", "convert"}, n \in Names}
    \cup {Statement(k, n, "none", v) :
            k \in {"write", "assign"}, n \in Names, v \in Operands}
    \cup {Statement(k, n, o, v) :
            k \in {"compound", "compound_use"}, n \in Names,
            o \in CompoundOperators, v \in Operands}

\* the first thread runs any statement, the second one test_00, test_02,
\* test_19, test_21, test_23 (a conversion) or test_08 with x == 1
Menu(t) ==
  IF t = 1 THEN Statements
  ELSE {s \in Statements :
          \/ s.kind = "convert"
          \/ s.kind = "compound" /\ s.op = "+=" /\ s.val = 1}

\* what the cells hold before the first statement
InitialValues == {8, 16}

CellIndex(c) ==
  CASE c = "r.rw_reg"   -> 0
    [] c = "r.r_reg"    -> 1
    [] c = "r.w_reg"    -> 2
    [] c = "0xA0001240" -> 3
    [] OTHER            -> 4

(* ----------------------------- the state machine ------------------------ *)

Access(t, a, c, v) == [thread |-> t, access |-> a, cell |-> c, value |-> v]

RegInit ==
  /\ T = fixed_point("int8_t", 4, 4, FALSE)
  /\ pc = "done"
  /\ op = "none"
  /\ args = NoArgs
  /\ res = NoArgs
  /\ \E b \in InitialValues : mem = [c \in Cells |-> b + CellIndex(c)]
  /\ threads = [t \in Threads |->
                  [pc |-> "start", stmt |-> NoStatement, declared |-> FALSE,
                   tmp |-> 0, result |-> 0]]
  /\ trace = <<>>

\* the first step of an accepted statement
FirstStep(s) ==
  CASE s.kind \in {"read", "convert"} -> "read"
    [] s.kind \in {"write", "assign"} -> "write"
    [] OTHER                           -> "compound_read"

\* the compiler takes the statement of thread t: a rejected statement is
\* never executed
Begin(t) ==
  /\ threads[t].pc = "start"
  /\ \E s \in Menu(t) :
       threads' = [threads EXCEPT ![t] =
                     [pc |-> IF accepted(s) THEN FirstStep(s) ELSE "rejected",
                      stmt |-> s,
                      declared |-> hw_reg_instantiable(Objects[s.reg].type),
                      tmp |-> 0, result |-> 0]]
  /\ UNCHANGED <<T, pc, op, args, res, mem, trace>>

\* T read (void) const, operator T (void) const: read (can_read)
Read(t) ==
  /\ threads[t].pc = "read"
  /\ LET n == threads[t].stmt.reg
         x == hw_reg_var_read(mem, n)
     IN  /\ trace' = Append(trace, Access(t, "read", address_of(n), x))
         /\ threads' = [threads EXCEPT ![t].pc = "done", ![t].result = x]
  /\ UNCHANGED <<T, pc, op, args, res, mem>>

\* void write (const T& val), operator = (const T& val): write (val, can_write)
Write(t) ==
  /\ threads[t].pc = "write"
  /\ LET n == threads[t].stmt.reg
         v == threads[t].stmt.val
     IN  /\ mem' = hw_reg_var_write(mem, n, v)
         /\ trace' = Append(trace, Access(t, "write", address_of(n), v))
         /\ threads' = [threads EXCEPT ![t].pc = "done"]
  /\ UNCHANGED <<T, pc, op, args, res>>

\* operator op= (const T& val): the argument read (can_read) of write
CompoundRead(t) ==
  /\ threads[t].pc = "compound_read"
  /\ LET n == threads[t].stmt.reg
         x == hw_reg_var_read(mem, n)
     IN  /\ trace' = Append(trace, Access(t, "read", address_of(n), x))
         /\ threads' = [threads EXCEPT ![t].pc = "compound_write",
                                       ![t].tmp = x]
  /\ UNCHANGED <<T, pc, op, args, res, mem>>

\* operator op= (const T& val): write (read (can_read) op val, can_write)
CompoundWrite(t) ==
  /\ threads[t].pc = "compound_write"
  /\ LET s == threads[t].stmt
         v == compound(s.op, threads[t].tmp, s.val)
     IN  /\ mem' = hw_reg_var_write(mem, s.reg, v)
         /\ trace' = Append(trace, Access(t, "write", address_of(s.reg), v))
         /\ threads' = [threads EXCEPT
                          ![t].pc = IF s.kind = "compound_use"
                                    THEN "convert_result" ELSE "done"]
  /\ UNCHANGED <<T, pc, op, args, res>>

\* test_08, test_09: the hw_reg& that operator op= returns, converted to T
ConvertResult(t) ==
  /\ threads[t].pc = "convert_result"
  /\ LET n == threads[t].stmt.reg
         x == hw_reg_var_read(mem, n)
     IN  /\ trace' = Append(trace, Access(t, "read", address_of(n), x))
         /\ threads' = [threads EXCEPT ![t].pc = "done", ![t].result = x]
  /\ UNCHANGED <<T, pc, op, args, res, mem>>

\* the accesses of two threads to one cell are not ordered by the class:
\* every interleaving of the single volatile loads and stores is a behaviour
RegNext ==
  \E t \in Threads :
    \/ Begin(t)
    \/ Read(t)
    \/ Write(t)
    \/ CompoundRead(t)
    \/ CompoundWrite(t)
    \/ ConvertResult(t)

RegSpec == RegInit /\ [][RegNext]_vars

(* ------------------------- notions of the claims ------------------------ *)

\* r is the value of type t whose bits are the low Width(t) bits of v
IsLowBits(t, r, v) ==
  IF Width(t) >= 32 THEN r = v
  ELSE /\ RawMin(t) <= r
       /\ r <= RawMax(t)
       /\ (r - v) % Pow2(Width(t)) = 0

\* the integer quotient rounded toward zero
Quotient(x, y) ==
  LET m == Abs(x) \div Abs(y) IN IF (x < 0) # (y < 0) THEN -m ELSE m

\* the widened companion of T, written out
Companion ==
  [T |-> IF T.T = "int8_t" THEN "int16_t" ELSE "uint16_t",
   I |-> T.I + T.I, F |-> T.F + T.F, W |-> TRUE]

\* 1 is a value of T: the raw value 2^F is in the range of the raw type
OneRepresentable == Pow2(T.F) <= RawMax(T.T)

Q44 == [T |-> "int8_t", I |-> 4, F |-> 4, W |-> FALSE]

(* -------------------------------- claims -------------------------------- *)

\* C1: the product a * b of two values of a non-widened type T has the type
\* of T's widened companion and the raw value a.raw * b.raw exactly (no bit
\* of the product is lost, for the extremes too); converted to T it is the
\* low N bits of (a.raw * b.raw) >> F, so 1.5 * 2.0 narrows to exactly 3.0.
C1_WideningMultiply ==
  op = "mul" =>
    LET p == args.a.value * args.b.value
    IN  /\ res.product.type = Companion
        /\ res.product.value = p
        /\ res.narrowed.type = T
        /\ IsLowBits(T.T, res.narrowed.value, p \div Pow2(T.F))
        /\ (T = Q44 /\ args.a.value = 24 /\ args.b.value = 32)
             => res.narrowed.value = 48

\* the product of the two minimum values needs more than N bits and is kept
C1_Witness ==
  /\ op = "mul"
  /\ args.a.value = RawMin(T.T)
  /\ args.b.value = RawMin(T.T)
  /\ is_signed(T.T)
  /\ res.product.value = Pow2(2 * Width(T.T) - 2)
  /\ res.product.value > RawMax(T.T)

\* C2 (as stated): a * n, n * a and a *= n converted to T have the raw value
\* a.raw * n whenever that product fits the raw type, so T(1) * n == T(n).
C2_IntMultiplyKeepsScale ==
  (op = "mul_int"
     /\ RawMin(T.T) <= args.a.value * args.n
     /\ args.a.value * args.n <= RawMax(T.T))
  => /\ res.fixed_int.value = args.a.value * args.n
     /\ res.int_fixed.value = args.a.value * args.n
     /\ res.assign.value = args.a.value * args.n

\* C3 (as stated): a / b has type T and the raw value of the low N bits of
\* (a.raw << F) / b.raw, truncating, and a / T(1) == a.
C3_DivideByOneIsIdentity ==
  op = "div" =>
    /\ res.quotient.type = T
    /\ IsLowBits(T.T, res.quotient.value,
                 Quotient(args.a.value * Pow2(T.F), args.b.value))
    /\ args.b = from_integral(T, 1) => res.quotient = args.a

\* C3 (amended): a / b has type T and the raw value of the low N bits of
\* (a.raw << F) / b.raw, truncating; a / T(1) == a whenever 1 is a value of
\* T, that is T(1).raw == 1 << F.
C3_PreScaledDivide ==
  op = "div" =>
    /\ res.quotient.type = T
    /\ IsLowBits(T.T, res.quotient.value,
                 Quotient(args.a.value * Pow2(T.F), args.b.value))
    /\ (OneRepresentable /\ args.b = from_integral(T, 1))
         => res.quotient = args.a

\* a value with a fraction is divided by 1.0 and comes back unchanged
C3_Witness ==
  /\ op = "div"
  /\ OneRepresentable
  /\ T.F > 0
  /\ args.b.value = Pow2(T.F)
  /\ args.a.value % Pow2(T.F) # 0
  /\ res.quotient = args.a

\* the narrowed representation of a value of the widened companion
Narrowed(v) == IF v.type = T THEN v.value ELSE v.value \div Pow2(T.F)

\* C4 (as stated): for a non-zero divisor, w / d has type T and the raw
\* value narrow(w).raw / narrow(d).raw.
C4_BothOperandsNarrowed ==
  (op = "div_widened" /\ res.defined) =>
    /\ res.quotient.type = T
    /\ \E nw \in RawMin(T.T)..RawMax(T.T) :
         /\ IsLowBits(T.T, nw, Narrowed(args.w))
         /\ \E nd \in RawMin(T.T)..RawMax(T.T) :
              /\ IsLowBits(T.T, nd, Narrowed(args.d))
              /\ IsLowBits(T.T, res.quotient.value, Quotient(nw, nd))

\* C4 (amended): for a divisor whose narrowed raw value is not zero, w / d
\* has type T and the raw value of the low N bits of w.raw / narrow(d).raw,
\* truncating: only the divisor is narrowed, the dividend keeps its 2N bits.
C4_OnlyDivisorNarrowed ==
  (op = "div_widened" /\ res.defined) =>
    /\ res.quotient.type = T
    /\ \E nd \in RawMin(T.T)..RawMax(T.T) :
         /\ IsLowBits(T.T, nd, Narrowed(args.d))
         /\ IsLowBits(T.T, res.quotient.value, Quotient(args.w.value, nd))

\* a widened dividend with low bits set is divided by a widened divisor
C4_Witness ==
  /\ op = "div_widened"
  /\ res.defined
  /\ args.d.type = Companion
  /\ T.F > 0
  /\ args.w.value % Pow2(T.F) # 0
  /\ res.quotient.value # 0

\* C5: in a * b + c * d both products and their sum have the widened type,
\* the sum is a.raw * b.raw + c.raw * d.raw in 2N bits, and the conversion
\* to T is the only narrowing: the result is the low N bits of
\* (a.raw * b.raw + c.raw * d.raw) >> F.
C5_MultiplyAccumulate ==
  op = "mac" =>
    LET ab == args.a.value * args.b.value
        cd == args.c.value * args.d.value
    IN  /\ res.ab = FP(Companion, ab)
        /\ res.cd = FP(Companion, cd)
        /\ res.sum.type = Companion
        /\ IsLowBits(Companion.T, res.sum.value, ab + cd)
        /\ res.narrowed.type = T
        /\ IsLowBits(T.T, res.narrowed.value, (ab + cd) \div Pow2(T.F))

\* the low bits of the two products carry into the result: narrowing each
\* product before the addition would give another value
C5_Witness ==
  /\ op = "mac"
  /\ ~ IsLowBits(T.T, res.narrowed.value,
                 (res.ab.value \div Pow2(T.F)) + (res.cd.value \div Pow2(T.F)))

\* C6: with n of type T and w of T's widened companion, w + n, n + w,
\* w - n and n - w have the widened type and the raw values
\* w.raw + (n.raw << F), the same, w.raw - (n.raw << F) and
\* (n.raw << F) - w.raw in 2N-bit arithmetic.
C6_MixedAddSubtract ==
  op = "add_mixed" =>
    LET w == args.w.value
        n == args.n.value * Pow2(T.F)
    IN  /\ res.w_plus_n.type = Companion
        /\ res.n_plus_w.type = Companion
        /\ res.w_minus_n.type = Companion
        /\ res.n_minus_w.type = Companion
        /\ IsLowBits(Companion.T, res.w_plus_n.value, w + n)
        /\ res.n_plus_w.value = res.w_plus_n.value
        /\ IsLowBits(Companion.T, res.w_minus_n.value, w - n)
        /\ IsLowBits(Companion.T, res.n_minus_w.value, n - w)

\* the promotion changes the raw value of the narrower operand
C6_Witness ==
  /\ op = "add_mixed"
  /\ T.F > 0
  /\ args.n.value < 0
  /\ args.w.value > 0
  /\ res.w_minus_n.value = args.w.value - args.n.value * Pow2(T.F)
  /\ res.n_minus_w.value = args.n.value * Pow2(T.F) - args.w.value

\* C7: a conversion from Fs to Fd fractional bits and raw type D gives the
\* raw cast to D if Fd == Fs, (raw cast to D) << (Fd - Fs) in D's width if
\* Fd > Fs, and (raw >> (Fs - Fd)) cast to D if Fd < Fs, the shift done in
\* the source width; so a narrower destination with half the fractional bits
\* receives the bits Fd .. Fd + N - 1 of the source raw (8.8 -> 4.4 here,
\* as 32.32 -> 16.16).
C7_ConvertTo ==
  op = "convert" =>
    LET v  == args.v.value
        fs == args.v.type.F
        fd == args.dest.F
        D  == args.dest.T
        r  == res.converted.value
    IN  /\ res.converted.type = args.dest
        /\ fd >= fs => IsLowBits(D, r, v * Pow2(fd - fs))
        /\ fd < fs => IsLowBits(D, r, v \div Pow2(fs - fd))
        /\ (Width(args.v.type.T) = 2 * Width(D) /\ fs = 2 * fd)
             => r % Pow2(Width(D))
                  = ((v % Pow2(2 * Width(D))) \div Pow2(fd)) % Pow2(Width(D))

\* a 16-bit value with integral bits above bit 7 is converted to an 8-bit
\* type with fewer fractional bits, and those bits arrive in the result
C7_Witness ==
  /\ op = "convert"
  /\ Width(args.v.type.T) = 2 * Width(args.dest.T)
  /\ args.v.type.F = 2 * args.dest.F
  /\ args.dest.F > 0
  /\ args.v.value >= Pow2(Width(args.dest.T))
  /\ res.converted.value > 0
  /\ res.converted.value * Pow2(args.dest.F) = args.v.value

\* n fits the I integral bits of T
FitsIntegralBits(n) ==
  IF is_signed(T.T)
  THEN -Pow2(T.I - 1) <= n /\ n <= Pow2(T.I - 1) - 1
  ELSE 0 <= n /\ n <= Pow2(T.I) - 1

\* C8: constructing a value of T from the integer n and converting it back
\* to the integer type of n yields (n << F) >> F evaluated in the raw type,
\* which is n whenever n fits in I bits.
C8_IntegerRoundTrip ==
  op = "int_round_trip" =>
    /\ res.fixed.type = T
    /\ IsLowBits(T.T, res.fixed.value, args.n * Pow2(T.F))
    /\ IsLowBits(args.otherT, res.back, res.fixed.value \div Pow2(T.F))
    /\ FitsIntegralBits(args.n) => res.back = args.n

\* a negative integer at the lower limit of the integral bits comes back
C8_Witness ==
  /\ op = "int_round_trip"
  /\ T.F > 0
  /\ T.I > 1
  /\ args.n = -Pow2(T.I - 1)
  /\ res.fixed.value = RawMin(T.T)
  /\ res.back = args.n

\* C9: the explicit conversion to an integer type returns raw >> F with an
\* arithmetic shift, the floor of the represented value: for a negative
\* value with a fraction one less than truncation toward zero gives, so
\* -1.5 converts to -2.
C9_ToIntegerIsFloor ==
  op = "to_int" =>
    LET v == args.a.value
        one == Pow2(T.F)
    IN  /\ IsLowBits(args.otherT, res.int, v \div one)
        /\ (is_signed(T.T) \/ Width(args.otherT) > Width(T.T))
             => /\ res.int * one <= v
                /\ v < (res.int + 1) * one
        /\ (v < 0 /\ v % one # 0) => res.int = Quotient(v, one) - 1
        /\ (T.F > 0 /\ v = -(one + one \div 2)) => res.int = -2

\* -1.5 is converted to -2
C9_Witness ==
  /\ op = "to_int"
  /\ T.F > 0
  /\ T.I > 1
  /\ args.a.value = -(Pow2(T.F) + Pow2(T.F - 1))
  /\ res.int = -2

\* C10 (as stated): for r of type T or of T's widened companion, each of
\* x += r, x -= r, x *= r, x /= r leaves x equal to x + r, x - r, x * r,
\* x / r converted to T.
C10_CompoundIsBinary ==
  op = "compound" => res.assigned = res.binary

\* the integer type of a signedness and a width
RawOf(signed, width) ==
  CASE width = 8  -> IF signed THEN "int8_t" ELSE "uint8_t"
    [] width = 16 -> IF signed THEN "int16_t" ELSE "uint16_t"
    [] width = 32 -> IF signed THEN "int32_t" ELSE "uint32_t"
    [] width = 64 -> IF signed THEN "int64_t" ELSE "uint64_t"
    [] OTHER      -> "none"

\* the number of bits of an integer type, by its name
RawBits(t) ==
  CASE t \in {"int8_t", "uint8_t"}   -> 8
    [] t \in {"int16_t", "uint16_t"} -> 16
    [] t \in {"int32_t", "uint32_t"} -> 32
    [] t \in {"int64_t", "uint64_t"} -> 64
    [] OTHER                         -> 0

\* the widened and the narrowed companion of a type A, written out
WidenedCompanionOf(A) ==
  [T |-> RawOf(is_signed(A.T), 2 * RawBits(A.T)),
   I |-> A.I + A.I, F |-> A.F + A.F, W |-> TRUE]

NarrowedCompanionOf(A) ==
  [T |-> RawOf(is_signed(A.T), RawBits(A.T) \div 2),
   I |-> A.I \div 2, F |-> A.F \div 2, W |-> FALSE]

\* B has the signedness of A, more integral bits and more fractional bits
Promotes(A, B) ==
  /\ is_signed(A.T) = is_signed(B.T)
  /\ B.I > A.I
  /\ B.F > A.F

\* C11 (as stated): a conversion from A to a type B of the same signedness
\* with more integral and more fractional bits is accepted implicitly; a
\* conversion between types whose I/F differ in any other way is rejected
\* implicitly and accepted as an explicit cast.
C11_PromotionIsImplicit ==
  op = "convert_kind" =>
    /\ Promotes(args.A, args.B) => res.implicit # "ill-formed"
    /\ (~ Promotes(args.A, args.B)
          /\ (args.A.I # args.B.I \/ args.A.F # args.B.F))
         => /\ res.implicit = "ill-formed"
            /\ res.explicit # "ill-formed"

\* C11 (amended): a conversion from A to another fixed-point type B is
\* accepted implicitly exactly when B is the widened companion of A (raw
\* type of twice the width, 2I, 2F, widened) or its narrowed companion;
\* every other conversion, a promotion to a wider type that is not the
\* companion included, is rejected implicitly, and every conversion is
\* accepted as an explicit cast.
C11_CompanionIsImplicit ==
  op = "convert_kind" =>
    /\ (res.implicit # "ill-formed")
         <=> args.B \in {args.A, WidenedCompanionOf(args.A),
                         NarrowedCompanionOf(args.A)}
    /\ (Promotes(args.A, args.B) /\ args.B # WidenedCompanionOf(args.A))
         => res.implicit = "ill-formed"
    /\ res.explicit # "ill-formed"

\* a promotion to the type of the companion's shape that is not the
\* companion (16.16 to a non-widened 32.32) needs the cast
C11_Witness ==
  /\ op = "convert_kind"
  /\ Promotes(args.A, args.B)
  /\ args.B = [WidenedCompanionOf(args.A) EXCEPT !.W = FALSE]
  /\ res.implicit = "ill-formed"
  /\ res.explicit # "ill-formed"

\* C12 (as stated): a conversion to a fixed-point type of fewer raw bits is
\* rejected when implicit and accepted when written as an explicit cast.
C12_NarrowingNeedsCast ==
  (op = "convert_kind" /\ RawBits(args.B.T) < RawBits(args.A.T)) =>
    /\ res.implicit = "ill-formed"
    /\ res.explicit # "ill-formed"

\* C12 (amended): a conversion to a fixed-point type of fewer raw bits is
\* rejected when implicit unless the destination is the narrowed companion
\* of the source (raw type of half the width, I/2, F/2, not widened), to
\* which the conversion is implicit; every narrowing conversion is accepted
\* as an explicit cast.
C12_NarrowingToCompanion ==
  (op = "convert_kind" /\ RawBits(args.B.T) < RawBits(args.A.T)) =>
    /\ args.B = NarrowedCompanionOf(args.A)
         => res.implicit = "operator narrowed_fixed_type"
    /\ args.B # NarrowedCompanionOf(args.A) => res.implicit = "ill-formed"
    /\ res.explicit # "ill-formed"

\* a widened value is narrowed to its narrowed companion without a cast
C12_Witness ==
  /\ op = "convert_kind"
  /\ args.A.W
  /\ RawBits(args.B.T) < RawBits(args.A.T)
  /\ args.B = NarrowedCompanionOf(args.A)
  /\ res.implicit = "operator narrowed_fixed_type"

C14_WidestMultiplyRejected ==
  op = "mul_accepted" =>
    /\ res.declare
    /\ res.add
    /\ ~ args.A.W =>
         /\ res.mul <=> args.A.T \notin {"int64_t", "uint64_t"}
         /\ res.mul_assign <=> args.A.T \notin {"int64_t", "uint64_t"}

\* 32.32 on int64_t: declared and added, but not multiplied
C14_Witness ==
  /\ op = "mul_accepted"
  /\ args.A = [T |-> "int64_t", I |-> 32, F |-> 32, W |-> FALSE]
  /\ res.declare
  /\ res.add
  /\ ~ res.mul
  /\ ~ res.mul_assign

\* the bit positions set in the two's complement representation of v in n bits
BitSet(v, n) == {k \in 0..(n - 1) : (v \div Pow2(k)) % 2 = 1}

\* the three invariants of a type
Invariants(ft) ==
  /\ RawBits(ft.T) > 0
  /\ RawBits(ft.T) = ft.I + ft.F
  /\ ft.I > 0

\* the two masks of the accepted type ft
MasksOf(ft, fm, im) ==
  LET N == RawBits(ft.T)
  IN  /\ fm = Pow2(ft.F) - 1
      /\ IsLowBits(ft.T, im, -fm - 1)
      /\ BitSet(fm, N) = 0..(ft.F - 1)
      /\ BitSet(fm, N) \cap BitSet(im, N) = {}
      /\ BitSet(fm, N) \cup BitSet(im, N) = 0..(N - 1)

\* C15 (as stated): every instantiation that is accepted satisfies
\* is_signed(raw) + digits(raw) == I + F and I > 0 with an integral raw
\* type, every instantiation violating one of these is rejected, and every
\* accepted type has the masks fractional_mask == (1 << F) - 1 and
\* integral_mask == ~fractional_mask, disjoint and together covering the
\* raw bits.
C15_EveryInstantiationChecked ==
  op = "instantiate" =>
    /\ res.accepted => Invariants(args.type)
    /\ ~ Invariants(args.type) => ~ res.accepted
    /\ res.accepted => res.masks_usable
    /\ res.masks => MasksOf(args.type, res.fractional_mask, res.integral_mask)

\* C16: for a type B of the signedness of T with at least as many integral
\* and at least as many fractional bits, the conversion of a value of T to B
\* has the raw value raw << (B.F - T.F) exactly, and the conversion back to
\* T returns the original raw value; so does T -> widened companion -> T.
C16_PromotionRoundTrip ==
  op = "round_trip" =>
    /\ (is_signed(args.B.T) = is_signed(T.T)
          /\ args.B.I >= T.I /\ args.B.F >= T.F)
         => /\ res.there.type = args.B
            /\ res.there.value = args.v.value * Pow2(args.B.F - T.F)
            /\ res.back = args.v
    /\ args.B = Companion => res.back = args.v

\* a negative value with a fraction goes to a 16-bit type with more
\* fractional bits and comes back
C16_Witness ==
  /\ op = "round_trip"
  /\ is_signed(args.B.T) = is_signed(T.T)
  /\ args.B.I >= T.I
  /\ args.B.F > T.F
  /\ T.F > 0
  /\ args.v.value < 0
  /\ args.v.value % Pow2(T.F) # 0
  /\ res.there.value # args.v.value
  /\ res.back = args.v

\* C17: std::abs (a) and std::fabs (a) return the same value of the type of
\* a: a if the type is unsigned or a.raw >= 0, and otherwise the value whose
\* raw is the negated raw of a in the raw type.
C17_AbsFabs ==
  op = "abs" =>
    /\ res.abs.type = args.a.type
    /\ res.fabs = res.abs
    /\ ~ is_signed(args.a.type.T) => res.abs = args.a
    /\ args.a.value >= 0 => res.abs = args.a
    /\ (is_signed(args.a.type.T) /\ args.a.value < 0)
         => IsLowBits(args.a.type.T, res.abs.value, -args.a.value)

\* a negative value with a fraction becomes positive
C17_Witness ==
  /\ op = "abs"
  /\ args.a.type = T
  /\ T.F > 0
  /\ args.a.value < 0
  /\ args.a.value % Pow2(T.F) # 0
  /\ res.abs.value = -args.a.value

\* C18: std::trunc (x) has the raw value of x with the F fractional bits
\* cleared and the integral bits unchanged; it is never greater than x, for
\* a negative x with a fraction it is the next lower integer (-1.5 gives
\* -2.0, here in 4.4), and trunc (trunc (x)) == trunc (x).
C18_TruncClearsFraction ==
  op = "trunc" =>
    LET x   == args.x.value
        one == Pow2(args.x.type.F)
        r   == res.trunc.value
    IN  /\ res.trunc.type = args.x.type
        /\ r % one = 0
        /\ r \div one = x \div one
        /\ r <= x
        /\ (x < 0 /\ x % one # 0) => r = (Quotient(x, one) - 1) * one
        /\ (args.x.type = Q44 /\ x = -24) => r = -32
        /\ res.twice = res.trunc

\* -1.5 is truncated to -2.0
C18_Witness ==
  /\ op = "trunc"
  /\ args.x.type = Q44
  /\ args.x.value = -24
  /\ res.trunc.value = -32

\* C19: for a and b of one type each of ==, !=, <, <=, >, >= is that
\* operator on the raw values, a == a holds, and exactly one of a < b,
\* a == b, a > b holds.
C19_RelationalOnRaw ==
  op = "compare" =>
    LET a == args.a.value
        b == args.b.value
    IN  /\ res.eq <=> a = b
        /\ res.ne <=> a # b
        /\ res.lt <=> a < b
        /\ res.le <=> a <= b
        /\ res.gt <=> a > b
        /\ res.ge <=> a >= b
        /\ args.a = args.b => res.eq
        /\ Cardinality({k \in {"lt", "eq", "gt"} : res[k]}) = 1

\* a negative value is less than a positive one of a smaller magnitude
C19_Witness ==
  /\ op = "compare"
  /\ args.a.value < 0
  /\ args.b.value > 0
  /\ args.b.value < -args.a.value
  /\ res.lt
  /\ ~ res.gt
  /\ ~ res.eq

\* C20: ++x and x++ leave x with the low N bits of raw + (1 << F), --x and
\* x-- with the low N bits of raw - (1 << F); the pre forms return the
\* updated value and the post forms the value before the update; ++x
\* followed by --x restores the raw value.
C20_IncrementDecrement ==
  op = "inc_dec" =>
    LET x   == args.x.value
        one == Pow2(T.F)
    IN  /\ IsLowBits(T.T, res.pre_inc.object.value, x + one)
        /\ res.pre_inc.result = res.pre_inc.object
        /\ res.post_inc.object = res.pre_inc.object
        /\ res.post_inc.result = args.x
        /\ IsLowBits(T.T, res.pre_dec.object.value, x - one)
        /\ res.pre_dec.result = res.pre_dec.object
        /\ res.post_dec.object = res.pre_dec.object
        /\ res.post_dec.result = args.x
        /\ res.inc_dec.object = args.x

\* the increment of the maximum wraps in the raw width, the post form
\* returns the maximum
C20_Witness ==
  /\ op = "inc_dec"
  /\ T.F > 0
  /\ args.x.value = RawMax(T.T)
  /\ res.post_inc.object.value < args.x.value
  /\ res.post_inc.result = args.x
  /\ res.pre_inc.result.value = res.post_inc.object.value

\* the value of the raw type t made of the low bits of v
LowBits(t, v) == CHOOSE r \in RawMin(t)..RawMax(t) : IsLowBits(t, r, v)

\* a widened raw value narrowed to T: shifted right by F, its low bits kept
NarrowRaw(w) == LowBits(T.T, w \div Pow2(T.F))

\* C24: (a * b) * (c * d) for a, b, c, d of a non-widened type T is
\* accepted, has the type of T's widened companion and the raw value
\* narrow(a * b).raw * narrow(c * d).raw, where narrow drops the low F bits
\* of a product and keeps the low N bits of the rest; a * b * c * d narrows
\* after each multiplication in the same way.
C24_WidenedTimesWidened ==
  op = "mul_mul" =>
    LET ab == args.a.value * args.b.value
        cd == args.c.value * args.d.value
    IN  /\ res.accepted
        /\ res.product.type = Companion
        /\ res.product.value = NarrowRaw(ab) * NarrowRaw(cd)
        /\ res.chain.type = Companion
        /\ res.chain.value
             = NarrowRaw(NarrowRaw(ab) * args.c.value) * args.d.value

\* both intermediate products have low fractional bits that are dropped,
\* and the result is not the product of the two widened raw values
C24_Witness ==
  /\ op = "mul_mul"
  /\ T = Q44
  /\ (args.a.value * args.b.value) % Pow2(T.F) # 0
  /\ (args.c.value * args.d.value) % Pow2(T.F) # 0
  /\ res.product.value # 0
  /\ res.product.value
       # (args.a.value * args.b.value) * (args.c.value * args.d.value)

\* C28: for a and b of a non-widened type T with b.raw # 0, (a * b) / b has
\* the type T and equals a, for the minimum value and the raw value -1 too.
C28_ProductDividedByFactor ==
  op = "mul_div" =>
    /\ res.quotient.type = T
    /\ res.quotient.value = args.a.value
    /\ res.equal

\* the minimum value multiplied with and divided by the raw value -1
C28_Witness ==
  /\ op = "mul_div"
  /\ is_signed(T.T)
  /\ args.a.value = -Pow2(RawBits(T.T) - 1)
  /\ args.b.value = -1
  /\ res.quotient = args.a

\* A is a valid non-widened type whose raw type has a next smaller integer
HasNarrowerRaw(A) == Invariants(A) /\ ~ A.W /\ RawBits(A.T) > 8

\* C29 (as stated): the narrowed companion <Raw3, I/2, F/2> of every valid
\* non-widened type with a next smaller raw type Raw3 is a valid type, for
\* odd I and I == 1 too.
C29_NarrowedCompanionValid ==
  (op = "narrowed" /\ HasNarrowerRaw(args.A)) =>
    /\ res.companion = NarrowedCompanionOf(args.A)
    /\ Invariants(res.companion)
    /\ res.accepted

\* C29: the narrowed companion <Raw3, I/2, F/2> of a valid non-widened type
\* with a next smaller raw type Raw3 is a valid type exactly when I is even;
\* for an odd I (9.23, 31.33, I == 1) its bit counts do not add up to the
\* width of Raw3 and its instantiation is rejected.
C29_NarrowedCompanionValidForEvenI ==
  (op = "narrowed" /\ HasNarrowerRaw(args.A)) =>
    /\ res.companion = NarrowedCompanionOf(args.A)
    /\ res.accepted <=> Invariants(res.companion)
    /\ res.accepted <=> (args.A.I % 2 = 0)

\* fxpt_9_23: the companion fixed_point<int16_t, 4, 11> is rejected
C29_Witness ==
  /\ op = "narrowed"
  /\ args.A = [T |-> "int32_t", I |-> 9, F |-> 23, W |-> FALSE]
  /\ res.companion = [T |-> "int16_t", I |-> 4, F |-> 11, W |-> FALSE]
  /\ ~ res.accepted

\* C30 (as stated): std::abs (a) and std::fabs (a) of a value of a signed
\* type are not negative, for the minimum value too.
C30_AbsNeverNegative ==
  (op = "abs" /\ is_signed(args.a.type.T)) =>
    /\ res.abs.value >= 0
    /\ res.fabs.value >= 0
    /\ res.signbit = 0
    /\ res.fsignbit = 0

\* C30: std::abs (a) and std::fabs (a) of a value of a signed type are not
\* negative unless a is the minimum value of the type, whose negation in
\* the raw type is the minimum value again.
C30_AbsNegativeOnlyAtLowest ==
  (op = "abs" /\ is_signed(args.a.type.T)) =>
    LET lowest == -Pow2(RawBits(args.a.type.T) - 1)
    IN  /\ args.a.value # lowest =>
             /\ res.abs.value >= 0
             /\ res.fabs.value >= 0
             /\ res.signbit = 0
             /\ res.fsignbit = 0
        /\ args.a.value = lowest =>
             /\ res.abs.value = lowest
             /\ res.fabs.value = lowest
             /\ res.signbit = 1
             /\ res.fsignbit = 1

\* the minimum value of T
C30_Witness ==
  /\ op = "abs"
  /\ args.a.type = T
  /\ is_signed(T.T)
  /\ args.a.value = -Pow2(RawBits(T.T) - 1)
  /\ res.abs.value < 0

(* --------------------------- claims about hw_reg ------------------------ *)

\* the register object of the statement of thread t, and its type
ObjectOf(t) == Objects[threads[t].stmt.reg]

TypeOf(t) == ObjectOf(t).type

\* thread t has a statement
Begun(t) == threads[t].pc # "start"

\* the statement of thread t is executed (now or later), not rejected
Executes(t) == Begun(t) /\ threads[t].pc # "rejected"

\* the address strategy is void or const_addr<A>
Supported(type) == type.A.kind = "void" \/ type.A.kind = "const_addr"

\* a non-const object of a supported register type
Plain(o) == Supported(o.type) /\ ~ o.const

\* the capability flags allow the statement
Allowed(s, type) ==
  IF s.kind = "read" \/ s.kind = "convert" THEN type.R
  ELSE IF s.kind = "write" \/ s.kind = "assign" THEN type.W
  ELSE type.R /\ type.W

\* the cell that a register object names
CellOf(n) ==
  IF Objects[n].type.A.kind = "void" THEN n ELSE Objects[n].type.A.value

\* the accesses that thread t has made
AccessesOf(t) == SelectSeq(trace, LAMBDA e : e.thread = t)

\* r is x op v for the small non-negative values of the registers
IsResult(o, x, v, r) ==
  LET N  == 16
      bx == BitSet(x, N)
      bv == BitSet(v, N)
  IN  CASE o = "+="  -> r = x + v
        [] o = "-="  -> r = x - v
        [] o = "*="  -> r = x * v
        [] o = "/="  -> r = Quotient(x, v)
        [] o = "%="  -> r = x - v * Quotient(x, v)
        [] o = "^="  -> r \in 0..Pow2(N) /\ BitSet(r, N) = (bx \cup bv) \ (bx \cap bv)
        [] o = "&="  -> r \in 0..Pow2(N) /\ BitSet(r, N) = bx \cap bv
        [] o = "|="  -> r \in 0..Pow2(N) /\ BitSet(r, N) = bx \cup bv
        [] o = ">>=" -> r = x \div Pow2(v)
        [] o = "<<=" -> r = x * Pow2(v)

\* C21 (as stated): on a non-const register object of a supported type,
\* read () and the conversion to T are accepted exactly when CanRead,
\* write (v) and = v exactly when CanWrite, each compound operator exactly
\* when both; a rejected statement makes no access.
C21_CapabilityGating ==
  \A t \in Threads :
    (Begun(t) /\ Plain(ObjectOf(t))) =>
      /\ Executes(t) <=> Allowed(threads[t].stmt, TypeOf(t))
      /\ ~ Executes(t) => AccessesOf(t) = <<>>

\* C22 (as stated): on a non-const read-write register of either address
\* strategy, write (v) and = v are executed and store v in the cell of the
\* register; a read of a cell returns the value of the last write to it;
\* a read leaves every cell as it is.
C22_WriteThenRead ==
  [][\A t \in Threads :
       /\ ( /\ threads'[t].pc # "start"
            /\ threads'[t].stmt.kind \in {"write", "assign"}
            /\ Plain(Objects[threads'[t].stmt.reg])
            /\ Objects[threads'[t].stmt.reg].type.R
            /\ Objects[threads'[t].stmt.reg].type.W )
            => threads'[t].pc # "rejected"
       /\ ( /\ threads[t].pc = "write"
            /\ threads'[t].pc = "done" )
            => mem'[CellOf(threads[t].stmt.reg)] = threads[t].stmt.val
       /\ ( /\ threads[t].pc = "read"
            /\ threads'[t].pc = "done" )
            => /\ mem' = mem
               /\ threads'[t].result = mem[CellOf(threads[t].stmt.reg)]
               /\ \A i \in 1..Len(trace) :
                    ( /\ trace[i].access = "write"
                      /\ trace[i].cell = CellOf(threads[t].stmt.reg)
                      /\ \A j \in (i + 1)..Len(trace) :
                           ~ ( trace[j].access = "write"
                               /\ trace[j].cell = trace[i].cell ) )
                      => threads'[t].result = trace[i].value
  ]_vars

\* C23: a hw_reg type passes its static_assert exactly when its address
\* strategy is void or const_addr<A>; every statement on a register of
\* another strategy (std::integral_constant<uintptr_t, A>) is rejected and
\* makes no access, and a readable register of either supported strategy
\* is read.
C23_AddressStrategies ==
  \A t \in Threads :
    Begun(t) =>
      /\ threads[t].declared <=> Supported(TypeOf(t))
      /\ ~ Supported(TypeOf(t)) => (~ Executes(t) /\ AccessesOf(t) = <<>>)
      /\ ( /\ Supported(TypeOf(t))
           /\ TypeOf(t).R
           /\ threads[t].stmt.kind \in {"read", "convert"} ) => Executes(t)

\* the declaration of test_20 is rejected while g_reg_0 and a member of
\* struct regs have been read
C23_Witness ==
  /\ threads[1].stmt.reg = "test_20.reg"
  /\ threads[1].pc = "rejected"
  /\ ~ threads[1].declared
  /\ threads[2].pc = "done"
  /\ threads[2].stmt.reg = "g_reg_0"
  /\ Len(AccessesOf(2)) = 1

\* C25: a thread that has executed r op= v has made exactly two accesses,
\* a read of the cell of r and then a write of (the value read) op v to it;
\* between them it has made the read only; when the result is used as a T
\* it has made one further read of the cell, whose value is the result.
C25_CompoundIsReadThenWrite ==
  \A t \in Threads :
    LET s == threads[t].stmt
        a == AccessesOf(t)
        c == CellOf(s.reg)
    IN  (Begun(t) /\ s.kind \in {"compound", "compound_use"}) =>
          /\ threads[t].pc = "compound_read" => a = <<>>
          /\ threads[t].pc = "compound_write" =>
               /\ Len(a) = 1
               /\ a[1].access = "read" /\ a[1].cell = c
          /\ threads[t].pc \in {"convert_result", "done"} =>
               /\ Len(a) >= 2
               /\ a[1].access = "read" /\ a[1].cell = c
               /\ a[2].access = "write" /\ a[2].cell = c
               /\ IsResult(s.op, a[1].value, s.val, a[2].value)
          /\ threads[t].pc = "convert_result" => Len(a) = 2
          /\ (threads[t].pc = "done" /\ s.kind = "compound") => Len(a) = 2
          /\ (threads[t].pc = "done" /\ s.kind = "compound_use") =>
               /\ Len(a) = 3
               /\ a[3].access = "read" /\ a[3].cell = c
               /\ threads[t].result = a[3].value

\* test_09: r.rw_reg <<= v with the result returned as an int
C25_Witness ==
  /\ threads[1].pc = "done"
  /\ threads[1].stmt.kind = "compound_use"
  /\ threads[1].stmt.op = "<<="
  /\ threads[1].stmt.reg = "r.rw_reg"
  /\ Len(AccessesOf(1)) = 3
  /\ threads[1].result = mem["r.rw_reg"]
  /\ threads[1].result # threads[1].tmp

\* both threads have executed r += 1 on one register object
BothIncremented ==
  /\ \A t \in Threads :
       /\ threads[t].pc = "done"
       /\ threads[t].stmt.kind = "compound"
       /\ threads[t].stmt.op = "+="
       /\ threads[t].stmt.val = 1
  /\ threads[1].stmt.reg = threads[2].stmt.reg

\* the accesses were made in the order read, read, write, write
ReadReadWriteWrite ==
  /\ Len(trace) = 4
  /\ trace[1].access = "read"
  /\ trace[2].access = "read"
  /\ trace[3].access = "write"
  /\ trace[4].access = "write"

\* C26: when two threads have each executed r += 1 on a register holding
\* v, the register holds v + 1 if the accesses were made in the order read,
\* read, write, write (one increment is lost) and v + 2 otherwise.
C26_LostUpdate ==
  BothIncremented =>
    LET v == trace[1].value
        c == CellOf(threads[1].stmt.reg)
    IN  IF ReadReadWriteWrite
        THEN /\ trace[1].thread # trace[2].thread
             /\ trace[2].value = v
             /\ mem[c] = v + 1
        ELSE mem[c] = v + 2

\* test_08 in both threads with x == 1: one increment is lost
C26_Witness ==
  /\ BothIncremented
  /\ ReadReadWriteWrite
  /\ threads[1].stmt.reg = "r.rw_reg"
  /\ mem["r.rw_reg"] = trace[1].value + 1

\* C27 (as stated): a write through a non-const writable register of a
\* supported type is executed and changes the cell that the register names
\* and no other cell: a register object with another embedded field or
\* another constant address reads what it read before, and every register
\* object of the same const_addr<A> reads the value written.
C27_WriteFrame ==
  [][\A t \in Threads :
       /\ ( /\ threads'[t].pc # "start"
            /\ threads'[t].stmt.kind \in {"write", "assign"}
            /\ Plain(Objects[threads'[t].stmt.reg])
            /\ Objects[threads'[t].stmt.reg].type.W )
            => threads'[t].pc # "rejected"
       /\ ( /\ threads[t].pc \in {"write", "compound_write"}
            /\ threads'[t].pc # threads[t].pc )
            => \A n \in Names :
                 Supported(Objects[n].type) =>
                   IF CellOf(n) = CellOf(threads[t].stmt.reg)
                   THEN hw_reg_var_read(mem', n) = trace'[Len(trace')].value
                   ELSE hw_reg_var_read(mem', n) = hw_reg_var_read(mem, n)
  ]_vars

====
